---- MODULE Spec2Model ----
(***************************************************************************)
(* State-machine model of alea/submitters/htcondor.py: SubmitterHTCondor   *)
(* (submit, _generate_workflow and their helpers).                         *)
(*                                                                         *)
(* File paths are sequences of tokens; the token "/" is the separator and  *)
(* the token ".yaml" is the extension that str.replace looks for.          *)
(***************************************************************************)
EXTENDS Integers, Sequences, FiniteSets, TLC

VARIABLES
    pc,                 \* position of the running submit() call
    error,              \* exception raised by the last submit() call, or "none"
    calls,              \* number of submit() calls started on this workflow ID
    dir_makers,         \* history: number of submit() calls that reached os.makedirs
    fs,                 \* paths that exist on the local filesystem
    tar_members,        \* arcnames stored in templates.tar.gz
    template_path,      \* self.template_path
    template_files,     \* os.walk(template_path): <<[dir, stem, ext]>>
    combine_n_jobs,     \* self.combine_n_jobs
    combine_n_outputs,  \* self.combine_n_outputs
    request_memory,     \* self.request_memory
    request_disk,       \* self.request_disk
    combine_disk,       \* self.combine_disk
    statistical_model_config,           \* self.statistical_model_config
    modified_statistical_model_config,  \* self.modified_statistical_model_config
    wf,                 \* self.wf: the jobs of the workflow graph, in add order
    wf_catalogs,        \* catalogs attached to self.wf
    sc, tc, rc,         \* self.sc, self.tc, self.rc
    added_limit_threshold,  \* self.added_limit_threshold
    limit_threshold,        \* self.limit_threshold
    f_limit_threshold,      \* self.f_limit_threshold
    combine_i, new_to_combine, job_id, combine_job,  \* locals of _generate_workflow
    script, args_dict,      \* loop locals: the ticket in hand and its rewritten arguments
    sh_pc,              \* Shell.run: position of the calling thread
    th_pc,              \* Shell.run: position of the launcher thread (target)
    _process,           \* Shell._process
    command,            \* the shell command: [state, returncode, traps_term]
    _out_file,          \* Shell._out_file: what the command has written so far
    _outerr,            \* Shell._outerr
    expired,            \* Shell._timeout_secs have passed since thread.join began
    term_sent,          \* kill -TERM has reached the command's process group
    sh_error            \* the exception Shell.run raised, or NoShellError

env_vars == <<fs, tar_members, template_path, template_files>>
conf_vars == <<combine_n_jobs, combine_n_outputs, request_memory, request_disk,
               combine_disk, statistical_model_config>>
cat_vars == <<sc, tc, rc>>
lt_vars == <<added_limit_threshold, limit_threshold, f_limit_threshold>>
loop_vars == <<combine_i, new_to_combine, job_id, combine_job, script, args_dict>>
call_vars == <<pc, error, calls, dir_makers>>
submitter_vars == <<call_vars, env_vars, conf_vars, modified_statistical_model_config,
                    wf, wf_catalogs, cat_vars, lt_vars, loop_vars>>
shell_vars == <<sh_pc, th_pc, _process, command, _out_file, _outerr, expired,
                term_sent, sh_error>>
vars == <<submitter_vars, shell_vars>>

----------------------------------------------------------------------------
(* Bounds of the model *)

MaxTickets == 3
MaxK == 2
MaxCalls == 2
MaxCallTickets == 1
MaxPathLen == 3
MaxBase == 3
MaxJobTickets == 1
MaxAttempt == 3

----------------------------------------------------------------------------
(* Paths *)

SEP == "/"

NoPath == <<>>

\* os.path.basename: everything after the last separator
RECURSIVE Basename(_)
Basename(p) ==
    IF p = <<>> THEN <<>>
    ELSE IF p[Len(p)] = SEP THEN <<>>
    ELSE Append(Basename(SubSeq(p, 1, Len(p) - 1)), p[Len(p)])

_get_file_name(file_path) == Basename(file_path)

\* os.path.join of a directory and one more component
PathJoin(a, b) ==
    IF b # <<>> /\ b[1] = SEP THEN b
    ELSE IF a # <<>> /\ a[Len(a)] = SEP THEN a \o b
    ELSE a \o <<SEP>> \o b

\* str.replace(".yaml", "_modified.yaml")
RECURSIVE ReplaceYaml(_)
ReplaceYaml(s) ==
    IF s = <<>> THEN <<>>
    ELSE (IF s[1] = ".yaml" THEN <<"_modified", ".yaml">> ELSE <<s[1]>>)
         \o ReplaceYaml(Tail(s))

WORK_DIR == <<SEP, "scratch", SEP, "workflows">>
TOP_DIR == <<SEP, "top">>
workflow_id == "wfid"

generated_dir == WORK_DIR \o <<SEP, "generated", SEP, workflow_id>>
runs_dir == WORK_DIR \o <<SEP, "runs", SEP, workflow_id>>
outputs_dir == WORK_DIR \o <<SEP, "outputs", SEP, workflow_id>>
template_tarball == PathJoin(generated_dir, <<"templates.tar.gz">>)
workflow == PathJoin(generated_dir, <<"workflow.yml">>)
config_file_path == <<SEP, "cfg", SEP, "running.yaml">>

run_toymc_wrapper_pfn == TOP_DIR \o <<SEP, "alea", SEP, "submitters", SEP, "run_toymc_wrapper.sh">>
alea_run_toymc_pfn == TOP_DIR \o <<SEP, "bin", SEP, "alea_run_toymc">>
combine_pfn == TOP_DIR \o <<SEP, "alea", SEP, "submitters", SEP, "combine.sh">>

\* the output name computed by _modify_yaml
ModifiedConfigPath(smc) ==
    PathJoin(generated_dir, ReplaceYaml(_get_file_name(smc)))

----------------------------------------------------------------------------
(* Tickets: what Submitter.runner_kwargs_from_script returns for one script *)

SupportedModes == {"generate_and_store", "generate"}

TicketModes == SupportedModes \cup {"read"}

LimitThresholds == {<<SEP, "d", SEP, "lt1">>, <<SEP, "e", SEP, "lt2">>}

TicketFiles ==
    {[out |-> <<"o", SEP, "r1">>, toy |-> <<"o", SEP, "t1">>],
     [out |-> <<"r2">>, toy |-> <<"t2">>]}

ConfigPaths ==
    {<<SEP, "m", SEP, "model", ".yaml">>, <<"model", ".yaml">>, <<SEP, "m", SEP, "model", ".yml">>}

default_statistical_model_config == <<SEP, "m", SEP, "model", ".yaml">>

executable_path == <<SEP, "top", SEP, "bin", SEP, "alea_run_toymc">>

StatArgs(lt) ==
    IF lt = NoPath
    THEN [template_path |-> <<SEP, "tpl">>, confidence_level |-> "0.9"]
    ELSE [template_path |-> <<SEP, "tpl">>, confidence_level |-> "0.9",
          limit_threshold |-> lt]

Kwargs(mode, lt, out, toy, smc) ==
    [toydata_mode |-> mode,
     toydata_filename |-> toy,
     output_filename |-> out,
     statistical_model_config |-> smc,
     statistical_model_args |-> StatArgs(lt),
     n_mc |-> "10"]

Ticket(mode, lt, out, toy, smc) ==
    [executable |-> executable_path, kwargs |-> Kwargs(mode, lt, out, toy, smc)]

\* the scripts self.combined_tickets_generator() may yield
Tickets(smc) ==
    {Ticket(mode, lt, f.out, f.toy, smc) :
        mode \in TicketModes, lt \in LimitThresholds \cup {NoPath}, f \in TicketFiles}

NoTicket == [executable |-> NoPath, kwargs |-> Kwargs("generate", NoPath, NoPath, NoPath, NoPath)]

\* every path of at most n tokens over {"/", "n"}
RECURSIVE PathsUpTo(_)
PathsUpTo(n) ==
    IF n = 0 THEN {<<>>}
    ELSE LET shorter == PathsUpTo(n - 1)
         IN shorter \cup {Append(p, c) : p \in shorter, c \in {SEP, "n"}}

Paths == PathsUpTo(MaxPathLen) \ {<<>>}

----------------------------------------------------------------------------
(* PathResolver *)

STAGING_TEMPLATES == <<"templates", SEP>>

\* a rewrite that forgets to strip the directory of the output file
CorrectPathsKeepOutputDir(a, msmc) ==
    LET sma == a.statistical_model_args
        sma1 == [k \in DOMAIN sma \cup {"template_path"} |->
                    IF k = "template_path" THEN STAGING_TEMPLATES ELSE sma[k]]
        sma2 == IF "limit_threshold" \in DOMAIN sma1
                THEN [sma1 EXCEPT !.limit_threshold = _get_file_name(@)]
                ELSE sma1
    IN [a EXCEPT !.statistical_model_args = sma2,
                 !.toydata_filename = _get_file_name(@),
                 !.statistical_model_config = _get_file_name(msmc)]

_correct_paths_args_dict(a, msmc) ==
    LET sma == a.statistical_model_args
        sma1 == [k \in DOMAIN sma \cup {"template_path"} |->
                    IF k = "template_path" THEN STAGING_TEMPLATES ELSE sma[k]]
        sma2 == IF "limit_threshold" \in DOMAIN sma1
                THEN [sma1 EXCEPT !.limit_threshold = _get_file_name(@)]
                ELSE sma1
    IN [a EXCEPT !.statistical_model_args = sma2,
                 !.toydata_filename = _get_file_name(@),
                 !.output_filename = _get_file_name(@),
                 !.statistical_model_config = _get_file_name(msmc)]

\* the guard of _reorganize_script on registering the limit-threshold replica
RegisterAlways(added, sma) == "limit_threshold" \in DOMAIN sma

NeedsLimitThreshold(added, sma) ==
    ~added /\ "limit_threshold" \in DOMAIN sma

----------------------------------------------------------------------------
(* CatalogBuilder *)

Replica(lfn, pfn) == [site |-> "local", lfn |-> lfn, pfn |-> pfn]

_generate_sc == <<"local", "staging-davs", "condorpool">>

_generate_tc ==
    <<[name |-> "run_toymc_wrapper", site |-> "local", pfn |-> run_toymc_wrapper_pfn,
       clustered |-> TRUE],
      [name |-> "combine", site |-> "local", pfn |-> combine_pfn, clustered |-> FALSE]>>

_generate_rc(msmc) ==
    <<Replica(_get_file_name(template_tarball), template_tarball),
      Replica(_get_file_name(config_file_path), config_file_path),
      Replica(_get_file_name(msmc), msmc),
      Replica(<<"run_toymc_wrapper.sh">>, run_toymc_wrapper_pfn),
      Replica(<<"alea_run_toymc">>, alea_run_toymc_pfn),
      Replica(<<"combine.sh">>, combine_pfn)>>

\* the File objects _generate_rc keeps for the jobs' inputs
WorkflowInputs(msmc) ==
    <<_get_file_name(template_tarball), _get_file_name(config_file_path),
      _get_file_name(msmc), <<"run_toymc_wrapper.sh">>, <<"alea_run_toymc">>,
      <<"combine.sh">>>>

----------------------------------------------------------------------------
(* JobFactory *)

UNDEFINED == -1

Attempts == {UNDEFINED} \cup 0..MaxAttempt

\* an escalation that multiplies by the retry count instead of the attempt number
ResourceExprOffByOne(base) ==
    [if_undefined_or_zero |-> base, retry_offset |-> 0, retry_unit |-> base]

\* "ifthenelse(isundefined(DAGNodeRetry) || DAGNodeRetry == 0, base,
\*             (DAGNodeRetry + 1) * base)"
ResourceExpr(base) ==
    [if_undefined_or_zero |-> base, retry_offset |-> 1, retry_unit |-> base]

\* the value HTCondor gives the expression for a value of DAGNodeRetry
EvalExpr(e, DAGNodeRetry) ==
    IF DAGNodeRetry = UNDEFINED \/ DAGNodeRetry = 0
    THEN e.if_undefined_or_zero
    ELSE (DAGNodeRetry + e.retry_offset) * e.retry_unit

requirements == "HAS_SINGULARITY && HAS_CVMFS_xenon_opensciencegrid_org && ..."

_initialize_job(name, run_on_submit_node, cores, memory, disk) ==
    LET job == [name |-> name, execution_site |-> "",
                inputs |-> <<>>, outputs |-> <<>>, args |-> <<>>]
    IN IF run_on_submit_node
       THEN [job EXCEPT !.execution_site = "local"]
                @@ [condor |-> [request_cpus |-> cores]]
       ELSE job @@ [condor |-> [request_cpus |-> cores,
                                request_disk |-> ResourceExpr(disk),
                                request_memory |-> ResourceExpr(memory)]]

request_cpus == 1

\* an archive name that ignores the cohort index
CombineArchiveNoIndex(i) == <<workflow_id, "-", "0", "-combined_output.tar.gz">>

CombineArchive(i) == <<workflow_id, "-", ToString(i), "-combined_output.tar.gz">>

\* the job _add_combine_job adds to the workflow
CombineJob(i, mem, disk) ==
    LET job == _initialize_job("combine", FALSE, request_cpus, mem * 2, disk)
    IN [job EXCEPT !.condor = @ @@ [requirements |-> requirements],
                   !.outputs = <<[lfn |-> CombineArchive(i), stage_out |-> TRUE]>>,
                   !.args = <<workflow_id, "-", ToString(i)>>]

\* a compute job that declares the toy-data file whatever the mode
TicketOutputsAlwaysToy(ad) == <<ad.output_filename, ad.toydata_filename>>

\* the files the loop body declares as outputs of a compute job
TicketOutputs(ad) ==
    <<ad.output_filename>>
    \o (IF ad.toydata_mode = "generate_and_store" THEN <<ad.toydata_filename>> ELSE <<>>)

\* an aggregation job that is not given the stored toy data
CombineInputsResultOnly(ad) == <<ad.output_filename>>

\* the files the loop body adds to the open combine job's inputs
CombineInputs(ad) ==
    <<ad.output_filename>>
    \o (IF ad.toydata_mode = "generate_and_store" THEN <<ad.toydata_filename>> ELSE <<>>)

ArgsTuple(ad) ==
    <<ad.toydata_mode, ad.toydata_filename, ad.output_filename,
      ad.statistical_model_config, ad.statistical_model_args, ad.n_mc>>

\* the compute job the loop body of _generate_workflow builds
ComputeJob(ad, msmc, added, f_lt, mem, disk) ==
    LET job == _initialize_job("run_toymc_wrapper", FALSE, request_cpus, mem, disk)
    IN [job EXCEPT !.condor = @ @@ [requirements |-> requirements],
                   !.inputs = WorkflowInputs(msmc)
                              \o (IF added THEN <<f_lt>> ELSE <<>>),
                   !.outputs = [k \in 1..Len(TicketOutputs(ad)) |->
                                   [lfn |-> TicketOutputs(ad)[k], stage_out |-> FALSE]],
                   !.args = ArgsTuple(ad)]

\* closing the cohort one job late
CohortFullLate(id, n) == id % n = 0

\* (job_id + 1) % self.combine_n_outputs == 0
CohortFull(id, n) == (id + 1) % n = 0

----------------------------------------------------------------------------
(* The environment of a submission *)

TPL == <<SEP, "tpl">>

DEFAULT_request_memory == 2000
DEFAULT_request_disk == 2000000
DEFAULT_combine_disk == 20000000

TemplateFile(dir, stem, ext) == [dir |-> dir, stem |-> stem, ext |-> ext]

\* the files os.walk finds under an existing template directory
TemplateListings ==
    {<<TemplateFile("tpl/s1", "a", ".h5"), TemplateFile("tpl/s2", "b", ".h5"),
       TemplateFile("tpl", "notes", ".txt")>>,
     <<TemplateFile("tpl/s1", "x", ".h5"), TemplateFile("tpl/s2", "x", ".h5")>>}

\* local files that exist before submit() runs
ExternalFiles ==
    {config_file_path, run_toymc_wrapper_pfn, alea_run_toymc_pfn, combine_pfn}
    \cup ConfigPaths \cup LimitThresholds

MissingChoices == {{}, {run_toymc_wrapper_pfn, <<SEP, "d", SEP, "lt1">>}}

RunsDirIgnored(files) == FALSE

\* os.path.exists(self.runs_dir)
RunsDirExists(files) == runs_dir \in files

CombineAny(n) == FALSE

\* self.combine_n_jobs != 1
CombineNJobsRejected(n) == n # 1

NoShellError == [kind |-> "none", has_output |-> FALSE, output |-> <<>>]

NoCommand(traps) == [state |-> "none", returncode |-> 0, traps_term |-> traps]

\* Shell.__init__, lines 727-735
ShellConstructed ==
    /\ sh_pc = "idle" /\ th_pc = "unborn"
    /\ _process = "None"
    /\ _out_file = <<>> /\ _outerr = <<>>
    /\ expired = FALSE /\ term_sent = FALSE
    /\ sh_error = NoShellError

ShellNotRunning == ShellConstructed /\ command = NoCommand(FALSE)

TypeDefaults_Submitter ==
    /\ pc = "idle" /\ error = "none" /\ calls = 0 /\ dir_makers = 0
    /\ tar_members = <<>>
    /\ modified_statistical_model_config = NoPath
    /\ wf = <<>> /\ wf_catalogs = {}
    /\ sc = <<>> /\ tc = <<>> /\ rc = <<>>
    /\ added_limit_threshold = FALSE
    /\ limit_threshold = NoPath /\ f_limit_threshold = NoPath
    /\ combine_i = 0 /\ new_to_combine = TRUE /\ job_id = 0 /\ combine_job = 0
    /\ script = NoTicket /\ args_dict = NoTicket.kwargs

TypeDefaults == TypeDefaults_Submitter /\ ShellNotRunning

GoodEnvironment ==
    /\ fs = ExternalFiles \cup {TPL}
    /\ template_path = TPL
    /\ template_files \in {l \in TemplateListings : l[1].stem = "a"}

Init ==
    /\ TypeDefaults
    /\ \E missing \in MissingChoices, tpl \in SUBSET {TPL} :
          /\ fs = (ExternalFiles \ missing) \cup tpl
          /\ template_files \in (IF tpl = {} THEN {<<>>} ELSE TemplateListings)
    /\ template_path \in {NoPath, TPL}
    /\ (template_path = NoPath => TPL \notin fs)
    /\ combine_n_jobs \in {1, 2}
    /\ combine_n_outputs \in 1..MaxK
    /\ request_memory = DEFAULT_request_memory
    /\ request_disk = DEFAULT_request_disk
    /\ combine_disk = DEFAULT_combine_disk
    /\ statistical_model_config = default_statistical_model_config

----------------------------------------------------------------------------
(* submit() *)

Raise(e) == pc' = "raised" /\ error' = e

Submit(maxCalls) ==
    /\ pc \in {"idle", "returned", "raised"}
    /\ calls < maxCalls
    /\ calls' = calls + 1
    /\ IF RunsDirExists(fs)
       THEN Raise("RuntimeError: workflow already exists")
       ELSE pc' = "x509" /\ error' = "none"
    /\ UNCHANGED <<dir_makers, env_vars, conf_vars, modified_statistical_model_config,
                   wf, wf_catalogs, cat_vars, lt_vars, loop_vars,
                   shell_vars>>

_validate_x509_proxy ==
    /\ pc = "x509"
    /\ \E outcome \in {"ok", "unset", "command failed", "too short"} :
          CASE outcome = "ok" -> pc' = "makedirs" /\ error' = error
            [] outcome = "unset" -> Raise("AssertionError: X509_USER_PROXY")
            [] outcome = "command failed" -> Raise("RuntimeError: grid-proxy-info")
            [] outcome = "too short" -> Raise("RuntimeError: proxy lifetime")
    /\ UNCHANGED <<calls, dir_makers, env_vars, conf_vars,
                   modified_statistical_model_config,
                   wf, wf_catalogs, cat_vars, lt_vars, loop_vars,
                   shell_vars>>

MakeDirs ==
    /\ pc = "makedirs"
    /\ fs' = fs \cup {generated_dir, runs_dir, outputs_dir}
    /\ dir_makers' = dir_makers + 1
    /\ pc' = "modify_yaml"
    /\ UNCHANGED <<error, calls, tar_members, template_path, template_files, conf_vars,
                   modified_statistical_model_config,
                   wf, wf_catalogs, cat_vars, lt_vars, loop_vars,
                   shell_vars>>

_modify_yaml ==
    /\ pc = "modify_yaml"
    /\ modified_statistical_model_config' = ModifiedConfigPath(statistical_model_config)
    /\ fs' = fs \cup {modified_statistical_model_config'}
    /\ pc' = "validate_template"
    /\ UNCHANGED <<error, calls, dir_makers, tar_members, template_path, template_files,
                   conf_vars, wf, wf_catalogs, cat_vars, lt_vars, loop_vars,
                   shell_vars>>

_validate_template_path ==
    /\ pc = "validate_template"
    /\ IF template_path = NoPath
       THEN Raise("ValueError: no template path")
       ELSE IF template_path \notin fs
            THEN Raise("ValueError: template path does not exist")
            ELSE pc' = "check_unique" /\ error' = error
    /\ UNCHANGED <<calls, dir_makers, env_vars, conf_vars,
                   modified_statistical_model_config,
                   wf, wf_catalogs, cat_vars, lt_vars, loop_vars,
                   shell_vars>>

FileName(f) == <<f.stem, f.ext>>

\* a uniqueness check that looks at each directory on its own
HasDuplicateNamesPerDir(files) ==
    Len(files) # Cardinality({<<files[k].dir, FileName(files[k])>> : k \in DOMAIN files})

\* len(all_files) != len(set(all_files))
HasDuplicateNames(files) ==
    Len(files) # Cardinality({FileName(files[k]) : k \in DOMAIN files})

_check_filename_unique ==
    /\ pc = "check_unique"
    /\ IF HasDuplicateNames(template_files)
       THEN Raise("RuntimeError: file names not unique")
       ELSE pc' = "tarball" /\ error' = error
    /\ UNCHANGED <<calls, dir_makers, env_vars, conf_vars,
                   modified_statistical_model_config,
                   wf, wf_catalogs, cat_vars, lt_vars, loop_vars,
                   shell_vars>>

\* the arcnames _tar_h5_files adds, in walk order
RECURSIVE H5Names(_)
H5Names(files) ==
    IF files = <<>> THEN <<>>
    ELSE (IF Head(files).ext = ".h5" THEN <<FileName(Head(files))>> ELSE <<>>)
         \o H5Names(Tail(files))

_make_template_tarball ==
    /\ pc = "tarball"
    /\ tar_members' = H5Names(template_files)
    /\ fs' = fs \cup {template_tarball}
    /\ pc' = "generate"
    /\ UNCHANGED <<error, calls, dir_makers, template_path, template_files, conf_vars,
                   modified_statistical_model_config,
                   wf, wf_catalogs, cat_vars, lt_vars, loop_vars,
                   shell_vars>>

----------------------------------------------------------------------------
(* _generate_workflow *)

\* lines 553-567: the combine_n_jobs check, the catalogs, the loop's locals
GenerateWorkflowStart ==
    /\ pc = "generate"
    /\ IF CombineNJobsRejected(combine_n_jobs)
       THEN /\ Raise("ValueError: can not combine jobs")
            /\ UNCHANGED <<wf, wf_catalogs, cat_vars, combine_i, new_to_combine, job_id>>
       ELSE /\ wf' = <<>>
            /\ wf_catalogs' = {}
            /\ sc' = _generate_sc
            /\ tc' = _generate_tc
            /\ rc' = _generate_rc(modified_statistical_model_config)
            /\ combine_i' = 0
            /\ new_to_combine' = TRUE
            /\ job_id' = 0
            /\ pc' = "loop" /\ error' = error
    /\ UNCHANGED <<calls, dir_makers, env_vars, conf_vars,
                   modified_statistical_model_config, lt_vars,
                   combine_job, script, args_dict,
                   shell_vars>>

\* one iteration of the loop over self.combined_tickets_generator();
\* job_id counts the tickets taken so far, which is the index enumerate() gives next
GenerateLoop(maxTickets, tickets) ==
    /\ pc = "loop"
    /\ job_id < maxTickets
    /\ \E t \in tickets :
        LET opened == new_to_combine
            wf1 == IF opened
                   THEN Append(wf, CombineJob(combine_i, request_memory, combine_disk))
                   ELSE wf
            cj == IF opened THEN Len(wf1) ELSE combine_job
            sma == t.kwargs.statistical_model_args
            register == NeedsLimitThreshold(added_limit_threshold, sma)
            lt == IF register THEN sma.limit_threshold ELSE limit_threshold
            f_lt == IF register THEN _get_file_name(lt) ELSE f_limit_threshold
            added == added_limit_threshold \/ register
            rc1 == IF register THEN Append(rc, Replica(_get_file_name(lt), lt)) ELSE rc
            ad == _correct_paths_args_dict(t.kwargs, modified_statistical_model_config)
            job == ComputeJob(ad, modified_statistical_model_config, added, f_lt,
                              request_memory, request_disk)
            wf2 == [wf1 EXCEPT ![cj].inputs = @ \o CombineInputs(ad)]
            full == CohortFull(job_id, combine_n_outputs)
        IN /\ script' = t
           /\ args_dict' = ad
           /\ limit_threshold' = lt
           /\ f_limit_threshold' = f_lt
           /\ added_limit_threshold' = added
           /\ rc' = rc1
           /\ combine_job' = cj
           /\ IF ad.toydata_mode \notin SupportedModes
              THEN /\ Raise("NotImplementedError: toydata mode")
                   /\ wf' = wf1
                   /\ UNCHANGED <<combine_i, new_to_combine, job_id>>
              ELSE /\ wf' = Append(wf2, job)
                   /\ new_to_combine' = full
                   /\ combine_i' = IF full THEN combine_i + 1 ELSE combine_i
                   /\ job_id' = job_id + 1
                   /\ pc' = "loop" /\ error' = error
    /\ UNCHANGED <<calls, dir_makers, env_vars, conf_vars,
                   modified_statistical_model_config, wf_catalogs, sc, tc,
                   shell_vars>>

\* lines 640-644: the generator is exhausted
FinalizeWorkflow ==
    /\ pc = "loop"
    /\ wf_catalogs' = {"rc", "tc", "sc"}
    /\ fs' = fs \cup {workflow}
    /\ pc' = "plan"
    /\ UNCHANGED <<error, calls, dir_makers, tar_members, template_path, template_files,
                   conf_vars, modified_statistical_model_config,
                   wf, cat_vars, lt_vars, loop_vars,
                   shell_vars>>

_plan_and_submit ==
    /\ pc = "plan"
    /\ \E planned \in BOOLEAN :
          IF planned THEN pc' = "returned" /\ error' = error
          ELSE Raise("PegasusClientError")
    /\ UNCHANGED <<calls, dir_makers, env_vars, conf_vars,
                   modified_statistical_model_config,
                   wf, wf_catalogs, cat_vars, lt_vars, loop_vars,
                   shell_vars>>

Next ==
    \/ Submit(1)
    \/ _validate_x509_proxy
    \/ MakeDirs
    \/ _modify_yaml
    \/ _validate_template_path
    \/ _check_filename_unique
    \/ _make_template_tarball
    \/ GenerateWorkflowStart
    \/ GenerateLoop(MaxTickets, Tickets(statistical_model_config))
    \/ FinalizeWorkflow
    \/ _plan_and_submit

Spec == Init /\ [][Next]_vars

----------------------------------------------------------------------------
(* Further specifications *)

\* repeated submit() calls on one workflow ID, with short ticket streams
NextCalls ==
    \/ Submit(MaxCalls)
    \/ _validate_x509_proxy
    \/ MakeDirs
    \/ _modify_yaml
    \/ _validate_template_path
    \/ _check_filename_unique
    \/ _make_template_tarball
    \/ GenerateWorkflowStart
    \/ GenerateLoop(MaxCallTickets, Tickets(statistical_model_config))
    \/ FinalizeWorkflow
    \/ _plan_and_submit

SpecCalls == Init /\ [][NextCalls]_vars

\* configured resource requests drawn from 1..MaxBase
InitJob ==
    /\ TypeDefaults
    /\ GoodEnvironment
    /\ combine_n_jobs = 1
    /\ combine_n_outputs = 1
    /\ request_memory \in 1..MaxBase
    /\ request_disk \in 1..MaxBase
    /\ combine_disk \in 1..MaxBase
    /\ statistical_model_config = default_statistical_model_config

NextJob ==
    \/ Submit(1)
    \/ _validate_x509_proxy
    \/ MakeDirs
    \/ _modify_yaml
    \/ _validate_template_path
    \/ _check_filename_unique
    \/ _make_template_tarball
    \/ GenerateWorkflowStart
    \/ GenerateLoop(MaxJobTickets, Tickets(statistical_model_config))
    \/ FinalizeWorkflow
    \/ _plan_and_submit

SpecJob == InitJob /\ [][NextJob]_vars

\* tickets whose paths range over every path of at most MaxPathLen tokens
WideTickets ==
    {Ticket(mode, lt, out, <<"toys", SEP, "t">>, smc) :
        mode \in {"generate_and_store", "read"},
        lt \in Paths \cup {NoPath}, out \in Paths, smc \in ConfigPaths}
    \cup
    {Ticket("generate", NoPath, <<"r">>, toy, default_statistical_model_config) :
        toy \in Paths}

InitArgs ==
    /\ TypeDefaults
    /\ GoodEnvironment
    /\ combine_n_jobs = 1
    /\ combine_n_outputs = 1
    /\ request_memory = DEFAULT_request_memory
    /\ request_disk = DEFAULT_request_disk
    /\ combine_disk = DEFAULT_combine_disk
    /\ statistical_model_config \in ConfigPaths

NextArgs ==
    \/ Submit(1)
    \/ _validate_x509_proxy
    \/ MakeDirs
    \/ _modify_yaml
    \/ _validate_template_path
    \/ _check_filename_unique
    \/ _make_template_tarball
    \/ GenerateWorkflowStart
    \/ GenerateLoop(1, WideTickets)
    \/ FinalizeWorkflow
    \/ _plan_and_submit

SpecArgs == InitArgs /\ [][NextArgs]_vars

----------------------------------------------------------------------------
(* Reading the workflow graph *)

IsCombine(j) == j.name = "combine"
IsCompute(j) == j.name = "run_toymc_wrapper"

ComputeJobs == SelectSeq(wf, IsCompute)
AggregationJobs == SelectSeq(wf, IsCombine)

OutputNames(j) == [k \in DOMAIN j.outputs |-> j.outputs[k].lfn]

\* the declared outputs of jobs[from..to], one job after the other
RECURSIVE OutputsOf(_, _, _)
OutputsOf(jobs, from, to) ==
    IF from > to THEN <<>>
    ELSE OutputNames(jobs[from]) \o OutputsOf(jobs, from + 1, to)

Min(a, b) == IF a < b THEN a ELSE b

CeilDiv(n, k) == (n + k - 1) \div k

\* the loop is running or has run to its end
InBuild == pc \in {"loop", "plan", "returned"} \/ error = "PegasusClientError"

\* _generate_workflow ran to its end
BuildCompleted == pc \in {"plan", "returned"} \/ error = "PegasusClientError"

CombinePositions == {p \in DOMAIN wf : IsCombine(wf[p])}

\* the position in wf of the first combine job after position p, or the end of wf
NextCombineAfter(p) ==
    IF \E q \in CombinePositions : q > p
    THEN CHOOSE q \in CombinePositions :
             q > p /\ \A r \in CombinePositions : r > p => q <= r
    ELSE Len(wf) + 1

----------------------------------------------------------------------------
(* Claims *)

\* C1: with N compute jobs processed and cohort size K = combine_n_outputs there
\* are ceil(N / K) aggregation jobs, and the aggregation job of cohort i has as
\* inputs the outputs of the compute jobs at positions [i*K, min((i+1)*K, N)).
C1_CohortsByPosition ==
    InBuild =>
        LET N == Len(ComputeJobs)
            K == combine_n_outputs
        IN /\ Len(AggregationJobs) = CeilDiv(N, K)
           /\ job_id = N
           /\ \A i \in 0..(Len(AggregationJobs) - 1) :
                 /\ AggregationJobs[i + 1].args = <<workflow_id, "-", ToString(i)>>
                 /\ AggregationJobs[i + 1].inputs
                        = OutputsOf(ComputeJobs, i * K + 1, Min((i + 1) * K, N))

C1_Witness ==
    /\ BuildCompleted
    /\ Len(ComputeJobs) = 3 /\ combine_n_outputs = 2
    /\ Len(AggregationJobs) = 2
    /\ Len(AggregationJobs[2].inputs) >= 1

\* C2: after a completed build every compute job stands behind the aggregation
\* job that was open when its ticket was processed, and each aggregation job's
\* inputs are exactly the outputs of the compute jobs of its own cohort, in
\* ticket order.
C2_CohortMembership ==
    BuildCompleted =>
        /\ (wf # <<>> => IsCombine(wf[1]))
        /\ \A p \in DOMAIN wf : IsCombine(wf[p]) \/ IsCompute(wf[p])
        /\ \A c \in CombinePositions :
              wf[c].inputs = OutputsOf(wf, c + 1, NextCombineAfter(c) - 1)
        /\ (wf # <<>> =>
              /\ combine_job \in CombinePositions
              /\ NextCombineAfter(combine_job) = Len(wf) + 1)

C2_Witness ==
    /\ BuildCompleted
    /\ Cardinality(CombinePositions) = 2
    /\ \E c \in CombinePositions : Len(wf[c].inputs) = 4
    /\ \E c \in CombinePositions : Len(wf[c].inputs) = 1

\* C3: the limit-threshold replica is registered at most once per workflow: the
\* replica catalog holds at most one entry beyond the six of _generate_rc, it is
\* the file of the first ticket that referenced one, and the flag records it.
LimitThresholdEntries == {k \in DOMAIN rc : rc[k].pfn \in LimitThresholds}

ReferencesLimitThreshold(j) ==
    IsCompute(j) /\ "limit_threshold" \in DOMAIN j.args[5]

C3_RegisteredOnce ==
    /\ Cardinality(LimitThresholdEntries) <= 1
    /\ added_limit_threshold <=> Cardinality(LimitThresholdEntries) = 1
    /\ added_limit_threshold =>
          /\ Len(rc) = 7
          /\ rc[7] = Replica(_get_file_name(limit_threshold), limit_threshold)
    /\ (\E p \in DOMAIN wf : ReferencesLimitThreshold(wf[p])) => added_limit_threshold

C3_Witness ==
    /\ BuildCompleted
    /\ \E p, q \in DOMAIN wf :
          /\ p < q
          /\ ReferencesLimitThreshold(wf[p]) /\ ReferencesLimitThreshold(wf[q])
          /\ wf[p].args[5].limit_threshold = wf[q].args[5].limit_threshold
    /\ Cardinality(LimitThresholdEntries) = 1


\* C4: for every job made by _initialize_job off the submit node, the memory
\* and the disk request are the base value for an undefined or zero retry
\* counter and (attempt + 1) * base from attempt 1 on; so attempt 2 gives
\* 3 * base, and the request never decreases as the attempt grows.
BaseOf(j, key) ==
    IF IsCombine(j)
    THEN (IF key = "request_memory" THEN request_memory * 2 ELSE combine_disk)
    ELSE (IF key = "request_memory" THEN request_memory ELSE request_disk)

C4_RetryEscalation ==
    \A p \in DOMAIN wf : \A key \in {"request_memory", "request_disk"} :
        LET e == wf[p].condor[key]
            base == BaseOf(wf[p], key)
        IN /\ wf[p].execution_site # "local"
           /\ EvalExpr(e, UNDEFINED) = base
           /\ EvalExpr(e, 0) = base
           /\ \A a \in 1..MaxAttempt : EvalExpr(e, a) = (a + 1) * base
           /\ EvalExpr(e, 2) = 3 * base
           /\ \A a, b \in 0..MaxAttempt : a <= b => EvalExpr(e, a) <= EvalExpr(e, b)

C4_Witness ==
    /\ request_memory = 2 /\ request_disk = 3 /\ combine_disk = 1
    /\ \E p, q \in DOMAIN wf :
          /\ IsCombine(wf[p]) /\ IsCompute(wf[q])
          /\ EvalExpr(wf[p].condor.request_memory, 2) = 12
          /\ EvalExpr(wf[q].condor.request_disk, 2) = 9

\* C5: when the build aborts on a ticket whose toydata_mode is neither
\* 'generate' nor 'generate_and_store', no job has been added to the graph.
C5_NoJobsOnUnsupportedMode ==
    error = "NotImplementedError: toydata mode" => wf = <<>>

\* C6: with combine_n_jobs other than 1, _generate_workflow raises the
\* configuration error with no catalog constructed, no ticket consumed and no
\* job created.
C6_RejectsCombineNJobs ==
    combine_n_jobs # 1 =>
        /\ pc \notin {"loop", "plan", "returned"}
        /\ sc = <<>> /\ tc = <<>> /\ rc = <<>>
        /\ wf = <<>> /\ wf_catalogs = {}
        /\ job_id = 0 /\ script = NoTicket
        /\ (template_tarball \in fs /\ pc = "raised"
               => error = "ValueError: can not combine jobs")

C6_Witness ==
    /\ combine_n_jobs = 2
    /\ pc = "raised" /\ error = "ValueError: can not combine jobs"
    /\ template_tarball \in fs

\* C7: a submit() call that finds the run directory raises at once and changes
\* nothing else; so of the submit() calls on one workflow ID at most one ever
\* reaches the creation of the directories, also when that call failed later.
BetweenCalls == pc \in {"idle", "returned", "raised"}

C7_PreflightRejects ==
    /\ [][(BetweenCalls /\ runs_dir \in fs) =>
             /\ pc' = "raised"
             /\ error' = "RuntimeError: workflow already exists"
             /\ UNCHANGED <<dir_makers, env_vars, conf_vars,
                            modified_statistical_model_config,
                            wf, wf_catalogs, cat_vars, lt_vars, loop_vars>>]_vars
    /\ [](dir_makers <= 1)
    /\ [](runs_dir \in fs <=> dir_makers = 1)

C7_Witness ==
    /\ calls >= 2 /\ dir_makers = 1
    /\ pc = "raised" /\ error = "RuntimeError: workflow already exists"
    /\ workflow \notin fs
    /\ wf # <<>>

\* C8: if a local physical file that the replica catalog refers to does not
\* exist, the submission fails before any job is built.
ReferencedFileMissing == \E k \in DOMAIN rc : rc[k].pfn \notin fs

C8_MissingFileFailsEarly ==
    ReferencedFileMissing => (wf = <<>> /\ ~BuildCompleted)

\* C9 (as claimed): between their construction and their attachment to the
\* graph, processing tickets leaves all three catalogs unchanged.
C9_CatalogsImmutable ==
    [][pc = "loop" => (sc' = sc /\ tc' = tc /\ rc' = rc)]_vars

\* C9 (amended): the three catalogs are built once, before any job; the site
\* and transformation catalogs never change afterwards, and the replica
\* catalog changes at most by the one limit-threshold entry that the first
\* ticket referring to such a file appends.
C9_CatalogsBuiltOnce ==
    [][/\ (sc' # sc \/ tc' # tc) =>
             (pc = "generate" /\ sc = <<>> /\ tc = <<>> /\ wf' = <<>>)
       /\ rc' # rc =>
             \/ pc = "generate" /\ rc = <<>> /\ wf' = <<>>
             \/ /\ pc = "loop"
                /\ ~added_limit_threshold /\ added_limit_threshold'
                /\ "limit_threshold" \in DOMAIN script'.kwargs.statistical_model_args
                /\ rc' = Append(rc, Replica(_get_file_name(limit_threshold'),
                                            limit_threshold'))]_vars

C9_Witness ==
    /\ wf_catalogs = {"rc", "tc", "sc"}
    /\ Len(rc) = 7 /\ Len(sc) = 3 /\ Len(tc) = 2
    /\ Len(ComputeJobs) >= 2
    /\ ~ReferencesLimitThreshold(ComputeJobs[1])


\* b is the part of p after its last separator
IsBaseNameOf(b, p) ==
    /\ \A k \in DOMAIN b : b[k] # SEP
    /\ Len(b) <= Len(p)
    /\ SubSeq(p, Len(p) - Len(b) + 1, Len(p)) = b
    /\ (Len(b) < Len(p) => p[Len(p) - Len(b)] = SEP)

TicketProcessed == script # NoTicket

\* the rewritten arguments but for statistical_model_config
RewrittenButConfig ==
    LET old == script.kwargs
        oldArgs == old.statistical_model_args
        newArgs == args_dict.statistical_model_args
    IN /\ DOMAIN args_dict = DOMAIN old
       /\ DOMAIN newArgs = DOMAIN oldArgs
       /\ newArgs.template_path = <<"templates", SEP>>
       /\ ("limit_threshold" \in DOMAIN oldArgs =>
              IsBaseNameOf(newArgs.limit_threshold, oldArgs.limit_threshold))
       /\ IsBaseNameOf(args_dict.toydata_filename, old.toydata_filename)
       /\ IsBaseNameOf(args_dict.output_filename, old.output_filename)
       /\ \A k \in DOMAIN oldArgs \ {"template_path", "limit_threshold"} :
              newArgs[k] = oldArgs[k]
       /\ \A k \in DOMAIN old \ {"statistical_model_args", "toydata_filename",
                                 "output_filename", "statistical_model_config"} :
              args_dict[k] = old[k]

\* C10 (as claimed): the rewritten arguments have template_path replaced by the
\* staging directory name, each of limit_threshold, toydata_filename,
\* output_filename and statistical_model_config replaced by the base filename
\* of the ticket's own value, and every other field unchanged.
C10_RewriteOwnValues ==
    TicketProcessed =>
        /\ RewrittenButConfig
        /\ IsBaseNameOf(args_dict.statistical_model_config,
                        script.kwargs.statistical_model_config)

\* C10 (amended): as claimed for template_path, limit_threshold,
\* toydata_filename, output_filename and the other fields; but
\* statistical_model_config becomes the base filename of the submitter's
\* modified statistical-model config, whatever the ticket's own value is.
C10_RewriteWithModifiedConfig ==
    TicketProcessed =>
        /\ RewrittenButConfig
        /\ IsBaseNameOf(args_dict.statistical_model_config,
                        modified_statistical_model_config)
        /\ modified_statistical_model_config
              = generated_dir \o <<SEP>> \o args_dict.statistical_model_config

C10_Witness ==
    /\ TicketProcessed
    /\ script.kwargs.output_filename = <<"n", SEP, "n">>
    /\ args_dict.output_filename = <<"n">>
    /\ "limit_threshold" \in DOMAIN script.kwargs.statistical_model_args
    /\ script.kwargs.statistical_model_args.limit_threshold = <<SEP, SEP, "n">>
    /\ args_dict.statistical_model_args.limit_threshold = <<"n">>
    /\ script.kwargs.statistical_model_config = <<"model", ".yaml">>
    /\ args_dict.statistical_model_config = <<"model", "_modified", ".yaml">>

----------------------------------------------------------------------------
(* Shell.run: the calling thread, the launcher thread and the command *)

MaxOutput == 2

\* lines 748-757: open the temporary file, start the launcher thread
ShellRun ==
    /\ sh_pc = "idle"
    /\ _out_file' = <<>>
    /\ th_pc' = "started"
    /\ sh_pc' = "join"
    /\ UNCHANGED <<_process, command, _outerr, expired, term_sent, sh_error,
                   submitter_vars>>

\* target(), line 739: subprocess.Popen in a process group of its own
TargetPopen ==
    /\ th_pc = "started"
    /\ _process' = "Popen"
    /\ command' = [command EXCEPT !.state = "running"]
    /\ th_pc' = "communicate"
    /\ UNCHANGED <<sh_pc, _out_file, _outerr, expired, term_sent, sh_error,
                   submitter_vars>>

\* target(), line 746: communicate() returns once the command has ended
TargetDone ==
    /\ th_pc = "communicate"
    /\ command.state = "exited"
    /\ th_pc' = "done"
    /\ UNCHANGED <<sh_pc, _process, command, _out_file, _outerr, expired, term_sent,
                   sh_error, submitter_vars>>

\* the command writes to its stdout/stderr, which is the temporary file
CommandWrites ==
    /\ command.state = "running"
    /\ Len(_out_file) < MaxOutput
    /\ _out_file' = Append(_out_file, "line")
    /\ UNCHANGED <<sh_pc, th_pc, _process, command, _outerr, expired, term_sent,
                   sh_error, submitter_vars>>

\* the command ends on its own, with exit code 0 or 1
CommandExits ==
    /\ command.state = "running"
    /\ \E code \in {0, 1} :
          command' = [command EXCEPT !.state = "exited", !.returncode = code]
    /\ UNCHANGED <<sh_pc, th_pc, _process, _out_file, _outerr, expired, term_sent,
                   sh_error, submitter_vars>>

SIGTERM == 15

\* the command dies of the termination signal, unless it traps it
CommandTerminated ==
    /\ command.state = "running"
    /\ term_sent
    /\ ~command.traps_term
    /\ command' = [command EXCEPT !.state = "exited", !.returncode = 0 - SIGTERM]
    /\ UNCHANGED <<sh_pc, th_pc, _process, _out_file, _outerr, expired, term_sent,
                   sh_error, submitter_vars>>

\* self._timeout_secs pass while the caller waits in thread.join(timeout)
TimeoutExpires ==
    /\ sh_pc = "join"
    /\ ~expired
    /\ expired' = TRUE
    /\ UNCHANGED <<sh_pc, th_pc, _process, command, _out_file, _outerr, term_sent,
                   sh_error, submitter_vars>>

\* line 759: thread.join(self._timeout_secs) returns: the thread ended or time is up
JoinReturns ==
    /\ sh_pc = "join"
    /\ th_pc = "done" \/ expired
    /\ sh_pc' = "is_alive"
    /\ UNCHANGED <<th_pc, _process, command, _out_file, _outerr, expired, term_sent,
                   sh_error, submitter_vars>>

\* line 760: if thread.is_alive()
IsAlive ==
    /\ sh_pc = "is_alive"
    /\ sh_pc' = IF th_pc # "done" THEN "kill" ELSE "read"
    /\ UNCHANGED <<th_pc, _process, command, _out_file, _outerr, expired, term_sent,
                   sh_error, submitter_vars>>

\* lines 762-768: whether "kill -TERM -pgid" is run: self._process.pid raises
\* AttributeError while self._process is None, os.getpgid raises
\* ProcessLookupError once the command was reaped; both are swallowed
KillReaches(process, state) == process # "None" /\ state = "running"

KillGroup ==
    /\ sh_pc = "kill"
    /\ term_sent' = (term_sent \/ KillReaches(_process, command.state))
    /\ sh_pc' = "join_untimed"
    /\ UNCHANGED <<th_pc, _process, command, _out_file, _outerr, expired, sh_error,
                   submitter_vars>>

\* lines 776-778: "Command timed out after %d seconds: %s" % (timeout, cmd)
TimeoutError(out) == [kind |-> "timeout", has_output |-> FALSE, output |-> <<>>]

\* lines 790-793: "...non-zero exit code (%d): %s\n%s" % (code, cmd, self._outerr)
ExitCodeError(out) == [kind |-> "exit code", has_output |-> TRUE, output |-> out]

\* lines 769-778: thread.join() without a timeout, then the timeout error
JoinUntimedAndRaise ==
    /\ sh_pc = "join_untimed"
    /\ th_pc = "done"
    /\ sh_error' = TimeoutError(_out_file)
    /\ sh_pc' = "raised"
    /\ UNCHANGED <<th_pc, _process, command, _out_file, _outerr, expired, term_sent,
                   submitter_vars>>

\* lines 780-793: read the output, raise on a non-zero exit code
ReadOutput ==
    /\ sh_pc = "read"
    /\ _outerr' = _out_file
    /\ IF command.returncode # 0
       THEN sh_error' = ExitCodeError(_outerr') /\ sh_pc' = "raised"
       ELSE sh_error' = sh_error /\ sh_pc' = "returned"
    /\ UNCHANGED <<th_pc, _process, command, _out_file, expired, term_sent,
                   submitter_vars>>

\* line 797
get_outerr == _outerr

SubmitterIdle ==
    /\ TypeDefaults_Submitter
    /\ GoodEnvironment
    /\ combine_n_jobs = 1
    /\ combine_n_outputs = 1
    /\ request_memory = DEFAULT_request_memory
    /\ request_disk = DEFAULT_request_disk
    /\ combine_disk = DEFAULT_combine_disk
    /\ statistical_model_config = default_statistical_model_config

InitShell ==
    /\ SubmitterIdle
    /\ ShellConstructed
    /\ \E traps \in BOOLEAN : command = NoCommand(traps)

NextShell ==
    \/ ShellRun
    \/ TargetPopen
    \/ TargetDone
    \/ CommandWrites
    \/ CommandExits
    \/ CommandTerminated
    \/ TimeoutExpires
    \/ JoinReturns
    \/ IsAlive
    \/ KillGroup
    \/ JoinUntimedAndRaise
    \/ ReadOutput

SpecShell == InitShell /\ [][NextShell]_vars

----------------------------------------------------------------------------
\* C11: in Shell.run, whenever the timeout expired with the command unfinished,
\* the command's process group has been sent the termination signal before the
\* caller waits for the launcher thread again, in every interleaving of the
\* caller and the launcher thread, so that the caller does not wait for the
\* command to end on its own.
C11_TimeoutTerminatesGroup ==
    (sh_pc = "join_untimed" /\ command.state # "exited") => term_sent

\* C12: whenever submit() aborts with an error, the only filesystem changes it
\* has made are created directories: no modified model-config file, no
\* template archive and no workflow description file has been written.
C12_AbortLeavesOnlyDirectories ==
    pc = "raised" =>
        /\ ModifiedConfigPath(statistical_model_config) \notin fs
        /\ template_tarball \notin fs
        /\ workflow \notin fs

\* C13: if two files anywhere under the template directory share a file name,
\* submit() never gets past the file-name check: it aborts before the template
\* archive is created and before any job is built.
SameNameTwice ==
    \E i, j \in DOMAIN template_files :
        /\ i # j
        /\ template_files[i].stem = template_files[j].stem
        /\ template_files[i].ext = template_files[j].ext

C13_DuplicateNamesAbortEarly ==
    SameNameTwice =>
        /\ pc \notin {"tarball", "generate", "loop", "plan", "returned"}
        /\ template_tarball \notin fs
        /\ tar_members = <<>>
        /\ wf = <<>>
        /\ (pc = "raised" => error # "none")

C13_Witness ==
    /\ SameNameTwice
    /\ \E i, j \in DOMAIN template_files : template_files[i].dir # template_files[j].dir
    /\ pc = "raised"
    /\ error = "RuntimeError: file names not unique"

\* C15: for every ticket that gets a compute job, the compute job declares the
\* result file as an output and the open aggregation job receives it as an
\* input; the toy-data file is an output of the compute job and an input of
\* the open aggregation job if and only if the ticket's toydata_mode is
\* "generate_and_store".
C15_TicketStep ==
    job_id' = job_id + 1 =>
        LET job == wf'[Len(wf')]
            open == wf'[combine_job']
            result == args_dict'.output_filename
            toy == args_dict'.toydata_filename
            stored == script'.kwargs.toydata_mode = "generate_and_store"
            received == IF new_to_combine THEN open.inputs
                        ELSE SubSeq(open.inputs, Len(wf[combine_job].inputs) + 1,
                                    Len(open.inputs))
            declared == {job.outputs[k].lfn : k \in DOMAIN job.outputs}
            combined == {received[k] : k \in DOMAIN received}
        IN /\ IsCompute(job)
           /\ IsCombine(open)
           /\ result \in declared
           /\ result \in combined
           /\ toy \in declared <=> stored
           /\ toy \in combined <=> stored
           /\ Len(job.outputs) = (IF stored THEN 2 ELSE 1)
           /\ Len(received) = (IF stored THEN 2 ELSE 1)

C15_OutputsAndCombineInputs == [][C15_TicketStep]_vars

C15_Witness ==
    /\ \E k \in DOMAIN wf :
          /\ IsCompute(wf[k])
          /\ wf[k].args[1] = "generate_and_store"
          /\ Len(wf[k].outputs) = 2
    /\ \E k \in DOMAIN wf :
          /\ IsCompute(wf[k])
          /\ wf[k].args[1] = "generate"
          /\ Len(wf[k].outputs) = 1
    /\ \E k \in DOMAIN wf : IsCombine(wf[k]) /\ Len(wf[k].inputs) = 3

\* C16: for every ticket whose statistical_model_args hold a limit_threshold
\* path, once the ticket is processed the replica catalog has an entry for the
\* base name its rewritten arguments use, and the ticket's compute job declares
\* that file as an input; also when tickets reference different files.
C16_LimitThresholdOfEveryTicket ==
    (/\ TicketProcessed
     /\ "limit_threshold" \in DOMAIN script.kwargs.statistical_model_args) =>
        LET used == args_dict.statistical_model_args.limit_threshold
        IN /\ \E k \in DOMAIN rc : rc[k].lfn = used
           /\ (pc # "raised" =>
                 \E k \in DOMAIN wf[Len(wf)].inputs : wf[Len(wf)].inputs[k] = used)

\* C17: after a workflow build that completes, the aggregation jobs carry the
\* cohort indices 0, 1, 2, ... in order, without gap or repeat, so that their
\* archive names are pairwise distinct, and every aggregation job has at least
\* one declared input: none exists for an empty cohort, also when the ticket
\* count is 0 or an exact multiple of combine_n_outputs.
C17_CohortIndicesAndNoEmptyCohort ==
    BuildCompleted =>
        LET A == AggregationJobs
            N == Len(ComputeJobs)
        IN /\ \A i \in DOMAIN A :
                 /\ A[i].outputs =
                       <<[lfn |-> <<workflow_id, "-", ToString(i - 1),
                                    "-combined_output.tar.gz">>,
                          stage_out |-> TRUE]>>
                 /\ A[i].inputs # <<>>
           /\ \A i, j \in DOMAIN A :
                 i # j => A[i].outputs[1].lfn # A[j].outputs[1].lfn
           /\ (N = 0 => A = <<>>)
           /\ (N % combine_n_outputs = 0 => Len(A) * combine_n_outputs = N)

C17_Witness ==
    /\ BuildCompleted
    /\ combine_n_outputs = 2
    /\ Len(ComputeJobs) = 2
    /\ Len(AggregationJobs) = 1
    /\ AggregationJobs[1].inputs # <<>>

\* C14: whenever a command run through Shell.run fails, by a non-zero exit
\* code or by timeout, the error run() raises has the command's captured
\* combined output attached; on success no error is raised and get_outerr()
\* returns the captured output.
C14_ErrorCarriesOutput ==
    /\ sh_pc = "raised" =>
          /\ sh_error.kind \in {"exit code", "timeout"}
          /\ sh_error.has_output
          /\ sh_error.output = _out_file
    /\ sh_pc = "returned" =>
          /\ sh_error = NoShellError
          /\ get_outerr = _out_file

====
